---- MODULE Spec2Model ----
(***************************************************************************)
(* One POST /estimate-jancode request of the JAN code estimation API:      *)
(* estimate_jancode (app/api/routes.py) with the inference client          *)
(* (app/services/openai_service.py) and the lookup client                  *)
(* (app/services/jancode_service.py).  The handler is cut at its awaits:   *)
(* every action is the code that runs from one external call to the next.  *)
(*                                                                         *)
(* Conventions.  Python None is the string None.  confidence is kept in    *)
(* tenths (0.3 is 3).  The five response messages are named by the         *)
(* response shape they announce.  The suffix " (推定)" is written          *)
(* " (estimated)".  A product dict keeps the fields codeNumber, codeType,  *)
(* itemName and searchKeyword; the other fields are copied through by the  *)
(* code and are left out.                                                  *)
(***************************************************************************)
EXTENDS Integers, Sequences, FiniteSets, TLC

(* ------------------------------ bounds -------------------------------- *)
\* longest "keywords" array in an inference answer
MaxKwAnswer == 2
\* products the lookup provider returns over one request, all searches together
MaxTotalProducts == 3
\* longest "jancodes" array in a ranking answer
MaxRanked == 2
\* longest free-text answer of the image analysis, in tokens
MaxTokens == 2
\* characters a string handed to validate_jancode may have beyond the 13 of a JAN code
MaxExtra == 1

(* ------------------------- program constants -------------------------- *)
MAX_CANDIDATES == 5
KEYWORD_LIMIT == 5
MIN_CANDIDATES == 3
SEARCH_HITS == 3
SEARCH_PAGE == 1
JAN_LENGTH == 13

None == "None"
SUFFIX == " (estimated)"
JAN_ESTIMATED == "JAN (estimated)"
DIAGNOSTIC == "image download failed: HTTPError"

(* ------------------------------ inputs -------------------------------- *)
ProductNames == {"", "pn"}
ImageUrls == {"", "http://img"}
\* keywords an inference answer is made of; " " is a blank keyword
KwAlphabet == {"k1", " "}
\* codeNumber values of the lookup provider, named in the order in which a
\* request first sees them
CodeNames == <<"c1", "c2", "c3">>
Codes == {CodeNames[i] : i \in 1..Len(CodeNames)}
\* a code the ranking answer names although no search returned it
OUTSIDE_CODE == "cx"
\* tokens of a free-text answer: two 13-digit numbers and a word
JanTokens == {"4901234567894", "4901234567895"}
TextTokens == JanTokens \cup {"word"}
\* the modelled strings that consist of digits only
DigitStrings == Codes \cup {OUTSIDE_CODE} \cup JanTokens

(* ------------------------------ helpers ------------------------------- *)
Min(a, b) == IF a < b THEN a ELSE b
Max(a, b) == IF a > b THEN a ELSE b

SeqsUpTo(S, n) == UNION {[1..k -> S] : k \in 0..n}

\* Python s[:n]
Take(s, n) == SubSeq(s, 1, Min(n, Len(s)))

\* Python x in s, for a list s
Contains(s, x) == \E i \in 1..Len(s) : s[i] = x

\* Python truthiness of an Optional[str]
Truthy(s) == s # None /\ s # ""

\* Python str.strip() is non-empty
StripNonEmpty(k) == k # "" /\ k # " "

\* Python list(dict.fromkeys(s)): first occurrences, in order
RECURSIVE DictFromKeys(_)
DictFromKeys(s) ==
  IF s = <<>> THEN <<>>
  ELSE LET front == DictFromKeys(SubSeq(s, 1, Len(s) - 1))
           last == s[Len(s)]
       IN IF Contains(front, last) THEN front ELSE Append(front, last)

\* Python ", ".join(s)
RECURSIVE JoinComma(_)
JoinComma(s) ==
  IF s = <<>> THEN ""
  ELSE IF Len(s) = 1 THEN s[1]
  ELSE s[1] \o ", " \o JoinComma(Tail(s))

EmptyMap == [k \in {} |-> 0]
\* Python d[k] = v
MapPut(d, k, v) == [x \in (DOMAIN d) \cup {k} |-> IF x = k THEN v ELSE d[x]]

(* ------------------------------- state -------------------------------- *)
VARIABLES
  pc,                 \* position of the handler: the await it is suspended at
  product_name,       \* request.product_name
  product_image_url,  \* request.product_image_url
  search_keywords,    \* routes.py:65
  idx,                \* position of the for loop of routes.py:84 (1-based)
  all_products,       \* routes.py:80
  keyword_hits,       \* routes.py:81
  keyword_product_map,\* routes.py:82
  unique_products,    \* routes.py:114, a dict kept as its values in insertion order
  image_candidates,   \* routes.py:126
  filtered_jancodes,  \* routes.py:161, after the fallback of routes.py:168-170
  response,           \* what the request ends in: the JANCodeResponse or the HTTP error
  calls,              \* history: the external calls made, in order
  raw_results,        \* history: per search attempt, the keyword and the products returned
  search_failed,      \* history: per search attempt, whether its try block raised
  jan_input,          \* jancode_utils.py:5, the argument of validate_jancode
  jan_valid           \* jancode_utils.py:5-28, what validate_jancode ended in

vars == <<pc, product_name, product_image_url, search_keywords, idx, all_products,
          keyword_hits, keyword_product_map, unique_products, image_candidates,
          filtered_jancodes, response, calls, raw_results, search_failed,
          jan_input, jan_valid>>

(* ----------------------------- responses ------------------------------ *)
\* JANCodeResponse(...) with the model's defaults for the fields not given
JANCodeResponse(jancode, candidates, confidence, name, message, used, hits) ==
  [status |-> 200, jancode |-> jancode, candidates |-> candidates,
   confidence |-> confidence, product_name |-> name, message |-> message,
   usedKeywords |-> used, keywordHits |-> hits]

\* raise HTTPException(status_code=...) leaving the handler
HTTPError(status_code) ==
  [status |-> status_code, jancode |-> None, candidates |-> <<>>,
   confidence |-> 0, product_name |-> None, message |-> "error",
   usedKeywords |-> <<>>, keywordHits |-> EmptyMap]

NoResponse == HTTPError(0)

\* except Exception as e: raise HTTPException(status_code=500, ...)
\* HTTPException is an Exception: the clause also catches the 400 raised in the try block
HandlerExcept(exc) == HTTPError(500)

\* the record with codeNumber, codeType "JAN (推定)" and itemName f"{product_name} (推定)"
\* of routes.py:143-147 and routes.py:181-185
Synthesized(jancode, name) ==
  [dict |-> TRUE, codeNumber |-> jancode, codeType |-> JAN_ESTIMATED,
   itemName |-> name \o SUFFIX, searchKeyword |-> None]

Init ==
  /\ pc = "start"
  /\ product_name \in ProductNames
  /\ product_image_url \in ImageUrls
  /\ search_keywords = <<>>
  /\ idx = 1
  /\ all_products = <<>>
  /\ keyword_hits = EmptyMap
  /\ keyword_product_map = EmptyMap
  /\ unique_products = <<>>
  /\ image_candidates = <<>>
  /\ filtered_jancodes = <<>>
  /\ response = NoResponse
  /\ calls = <<>>
  /\ raw_results = <<>>
  /\ search_failed = <<>>
  /\ jan_input = <<>>
  /\ jan_valid = None

\* the request ends with response r
Finish(r) ==
  /\ pc' = "done"
  /\ response' = r

(* ----------------------- routes.py:57-62, 248-249 ---------------------- *)
Validate ==
  /\ UNCHANGED <<jan_input, jan_valid>>
  /\ pc = "start"
  /\ IF product_image_url = ""
       THEN Finish(HandlerExcept([type |-> "HTTPException", status_code |-> 400]))
       ELSE pc' = "keywords" /\ response' = response
  /\ UNCHANGED <<product_name, product_image_url, search_keywords, idx, all_products,
                 keyword_hits, keyword_product_map, unique_products, image_candidates,
                 filtered_jancodes, calls, raw_results, search_failed>>

(* ------------------- openai_service.py:113-186 ------------------------ *)
\* What the image download and the inference provider do for one call:
\*   download_error  httpx.HTTPError from client.get / raise_for_status
\*   api_error       the provider client raises (an openai error, not an httpx.HTTPError)
\*   invalid_json    json.loads raises JSONDecodeError
\*   wrong_shape     valid JSON of the wrong shape: .get or .strip raises AttributeError
\*   ok              a JSON object, here with its "keywords" array
KeywordReplies ==
  {[kind |-> k, keywords |-> <<>>] :
      k \in {"download_error", "api_error", "invalid_json", "wrong_shape"}}
  \cup {[kind |-> "ok", keywords |-> ks] : ks \in SeqsUpTo(KwAlphabet, MaxKwAnswer)}

\* the result of a call: a value, or an exception that leaves the callee
Returned(v) == [raised |-> FALSE, value |-> v]
Raised == [raised |-> TRUE, value |-> <<>>]

generate_search_keywords(reply, name) ==
  IF reply.kind \in {"download_error", "invalid_json"}
    THEN Returned(IF name # "" THEN <<name>> ELSE <<>>)
  ELSE IF reply.kind \in {"api_error", "wrong_shape"}
    THEN Raised
  ELSE LET keywords == SelectSeq(reply.keywords, StripNonEmpty)
           appended == IF name # "" /\ ~Contains(keywords, name)
                         THEN Append(keywords, name) ELSE keywords
       IN Returned(Take(appended, KEYWORD_LIMIT))

(* -------------------------- routes.py:64-82 --------------------------- *)
GenerateKeywords ==
  /\ UNCHANGED <<jan_input, jan_valid>>
  /\ pc = "keywords"
  /\ \E reply \in KeywordReplies :
       LET r == generate_search_keywords(reply, product_name) IN
         /\ calls' = Append(calls, [op |-> "generate_search_keywords", arg |-> product_name])
         /\ IF r.raised
              THEN Finish(HandlerExcept([type |-> "Exception"]))
                   /\ UNCHANGED search_keywords
            ELSE IF r.value = <<>>
              THEN Finish(JANCodeResponse(None, <<>>, 0, product_name, "NoKeywords",
                                          <<>>, EmptyMap))
                   /\ search_keywords' = r.value
            ELSE /\ search_keywords' = r.value
                 /\ pc' = "search"
                 /\ response' = response
  /\ UNCHANGED <<product_name, product_image_url, idx, all_products,
                 keyword_hits, keyword_product_map, unique_products, image_candidates,
                 filtered_jancodes, raw_results, search_failed>>

(* -------------------- jancode_service.py:15-40 ------------------------ *)
\* What a product of the "product" array is: a dict with that codeNumber, a dict
\* whose codeNumber is missing or empty (""), or a JSON value that is not a dict
NON_DICT == "<not a dict>"
ItemKinds == Codes \cup {"", NON_DICT}

\* every product the provider returns is a fresh dict: its itemName tells them apart
ItemName(n) == "item" \o ToString(n)

MakeProducts(kinds, base) ==
  [j \in 1..Len(kinds) |->
     [dict |-> kinds[j] # NON_DICT, codeNumber |-> kinds[j], codeType |-> "JAN",
      itemName |-> ItemName(base + j), searchKeyword |-> None]]

\* the codes of the products returned so far
RECURSIVE ReturnedCodes(_)
ReturnedCodes(raw) ==
  IF raw = <<>> THEN {}
  ELSE {Head(raw).product[j].codeNumber : j \in 1..Len(Head(raw).product)}
         \cup ReturnedCodes(Tail(raw))

\* the naming of the codes: CodeNames[m] is first returned after CodeNames[m - 1]
InNamingOrder(seen, kinds) ==
  \A j \in 1..Len(kinds) : \A m \in 2..Len(CodeNames) :
     kinds[j] = CodeNames[m] =>
        CodeNames[m - 1] \in seen \cup {kinds[i] : i \in 1..(j - 1)}

RECURSIVE ReturnedCount(_)
ReturnedCount(raw) ==
  IF raw = <<>> THEN 0 ELSE Len(Head(raw).product) + ReturnedCount(Tail(raw))

\* search_by_keyword either raises httpx.HTTPError (client.get, raise_for_status) or
\* returns response.json(): {"info": {"count": c}, "product": [...]}, the provider
\* counting the products it returns
SearchReplies(raw, budget) ==
  {[kind |-> "http_error", count |-> 0, product |-> <<>>]}
  \cup {[kind |-> "ok", count |-> Len(ks), product |-> MakeProducts(ks, ReturnedCount(raw))] :
          ks \in {k \in SeqsUpTo(ItemKinds, budget) : InNamingOrder(ReturnedCodes(raw), k)}}

(* -------------------------- routes.py:100-105 -------------------------- *)
\* the inner for loop; product.get raises AttributeError on a product that is not a dict
RECURSIVE RecordKeywords(_, _, _)
RecordKeywords(kpm, products, keyword) ==
  IF products = <<>> THEN [map |-> kpm, raised |-> FALSE]
  ELSE LET product == Head(products) IN
    IF ~product.dict THEN [map |-> kpm, raised |-> TRUE]
    ELSE LET code_number == product.codeNumber
             before == IF code_number \in DOMAIN kpm THEN kpm[code_number] ELSE <<>>
             next == IF Truthy(code_number)
                       THEN MapPut(kpm, code_number, Append(before, keyword))
                       ELSE kpm
         IN RecordKeywords(next, Tail(products), keyword)

(* --------------------------- routes.py:85-111 -------------------------- *)
\* one iteration of the keyword loop, given what the lookup did
SearchIteration(hits, kpm, all, keyword, reply) ==
  IF reply.kind = "http_error"
    THEN [hits |-> MapPut(hits, keyword, 0), map |-> kpm, all |-> all, failed |-> TRUE]
  ELSE LET rec == RecordKeywords(kpm, reply.product, keyword) IN
    IF rec.raised
      THEN [hits |-> MapPut(MapPut(hits, keyword, reply.count), keyword, 0),
            map |-> rec.map, all |-> all, failed |-> TRUE]
      ELSE [hits |-> MapPut(hits, keyword, reply.count), map |-> rec.map,
            all |-> all \o reply.product, failed |-> FALSE]

(* -------------------------- routes.py:113-121 -------------------------- *)
HasCode(products, code) == \E i \in 1..Len(products) : products[i].codeNumber = code

\* the dedup loop, unique being the dict built so far; the searchKeyword the
\* code writes into the dict it keeps is shown on the pool record only
RECURSIVE DedupLoop(_, _, _)
DedupLoop(products, kpm, unique) ==
  IF products = <<>> THEN unique
  ELSE LET product == Head(products)
           code_number == product.codeNumber
       IN IF Truthy(code_number) /\ ~HasCode(unique, code_number)
            THEN DedupLoop(Tail(products), kpm,
                   Append(unique,
                          IF code_number \in DOMAIN kpm
                            THEN [product EXCEPT !.searchKeyword = JoinComma(kpm[code_number])]
                            ELSE product))
            ELSE DedupLoop(Tail(products), kpm, unique)

\* the loop without "code_number not in unique_products": a later product with
\* the same codeNumber replaces the record under its key
RECURSIVE DedupLoopOverwrite(_, _, _)
DedupLoopOverwrite(products, kpm, unique) ==
  IF products = <<>> THEN unique
  ELSE LET product == Head(products)
           code_number == product.codeNumber
           marked == IF code_number \in DOMAIN kpm
                       THEN [product EXCEPT !.searchKeyword = JoinComma(kpm[code_number])]
                       ELSE product
       IN IF ~Truthy(code_number)
            THEN DedupLoopOverwrite(Tail(products), kpm, unique)
          ELSE IF HasCode(unique, code_number)
            THEN DedupLoopOverwrite(Tail(products), kpm,
                   [i \in 1..Len(unique) |->
                      IF unique[i].codeNumber = code_number THEN marked ELSE unique[i]])
          ELSE DedupLoopOverwrite(Tail(products), kpm, Append(unique, marked))

DedupProducts_overwrite(products, kpm) == DedupLoopOverwrite(products, kpm, <<>>)

DedupProducts(products, kpm) == DedupLoop(products, kpm, <<>>)

\* the branch taken with the test of routes.py:124 dropped
AfterDedup_image(unique) == "image"

\* routes.py:124, if not unique_products: the external call that comes next
AfterDedup(unique) == IF unique = <<>> THEN "image" ELSE "rank"

(* --------------------------- routes.py:84-124 -------------------------- *)
\* one keyword of the fan-out loop: the code from the return of one search to
\* the next await, which after the last keyword includes the dedup loop
SearchKeyword ==
  /\ UNCHANGED <<jan_input, jan_valid>>
  /\ pc = "search"
  /\ idx <= Len(search_keywords)
  /\ LET keyword == search_keywords[idx]
     IN \E reply \in SearchReplies(raw_results, MaxTotalProducts - ReturnedCount(raw_results)) :
          /\ LET it == SearchIteration(keyword_hits, keyword_product_map, all_products,
                                       keyword, reply)
             IN /\ keyword_hits' = it.hits
                /\ keyword_product_map' = it.map
                /\ all_products' = it.all
                /\ search_failed' = Append(search_failed, it.failed)
          /\ raw_results' = Append(raw_results,
                                   [keyword |-> keyword, product |-> reply.product])
          /\ calls' = Append(calls, [op |-> "search_by_keyword", arg |-> keyword,
                                    hits |-> SEARCH_HITS, page |-> SEARCH_PAGE])
  /\ idx' = idx + 1
  /\ IF idx < Len(search_keywords)
       THEN /\ pc' = "search"
            /\ UNCHANGED unique_products
       ELSE /\ unique_products' = DedupProducts(all_products', keyword_product_map')
            /\ pc' = AfterDedup(unique_products')
  /\ UNCHANGED <<product_name, product_image_url, search_keywords,
                 image_candidates, filtered_jancodes, response>>

(* ------------------- openai_service.py:272-290 ------------------------ *)
\* a free text is its sequence of tokens; \b\d{13}\b matches the 13-digit tokens
Is13Digits(token) == token \in JanTokens

extract_jancodes(text) ==
  Take(DictFromKeys(SelectSeq(text, Is13Digits)), MAX_CANDIDATES)

(* --------------------- openai_service.py:17-77 ------------------------- *)
ImageReplies ==
  {[kind |-> k, text |-> <<>>] : k \in {"download_error", "api_error"}}
  \cup {[kind |-> "ok", text |-> t] : t \in SeqsUpTo(TextTokens, MaxTokens)}

analyze_product_image(reply) ==
  IF reply.kind = "download_error" THEN Returned(<<DIAGNOSTIC>>)
  ELSE IF reply.kind = "api_error" THEN Raised
  ELSE Returned(extract_jancodes(reply.text))

(* -------------------------- routes.py:206-223 -------------------------- *)
ProductInfo(product) ==
  [codeNumber |-> product.codeNumber, codeType |-> product.codeType,
   itemName |-> product.itemName, searchKeyword |-> product.searchKeyword]

ProductInfos(products) == [i \in 1..Len(products) |-> ProductInfo(products[i])]

(* -------------------------- routes.py:131-157 -------------------------- *)
FallbackResponse(candidates, name, keywords, hits) ==
  IF candidates = <<>>
    THEN JANCodeResponse(None, <<>>, 0, name, "NoCandidatesFound", <<>>, EmptyMap)
    ELSE LET taken == Take(candidates, Max(MIN_CANDIDATES, MAX_CANDIDATES))
             candidate_products ==
               [i \in 1..Len(taken) |-> ProductInfo(Synthesized(taken[i], name))]
         IN JANCodeResponse(None, candidate_products, 3, name, "LowConfidenceEstimate",
                            keywords, hits)

AnalyzeImage ==
  /\ UNCHANGED <<jan_input, jan_valid>>
  /\ pc = "image"
  /\ \E reply \in ImageReplies :
       LET r == analyze_product_image(reply) IN
         /\ calls' = Append(calls, [op |-> "analyze_product_image", arg |-> product_name])
         /\ image_candidates' = r.value
         /\ IF r.raised
              THEN Finish(HandlerExcept([type |-> "Exception"]))
              ELSE Finish(FallbackResponse(r.value, product_name, search_keywords,
                                           keyword_hits))
  /\ UNCHANGED <<product_name, product_image_url, search_keywords, idx, all_products,
                 keyword_hits, keyword_product_map, unique_products,
                 filtered_jancodes, raw_results, search_failed>>

(* ------------------- openai_service.py:188-270 ------------------------ *)
\* the codes a ranking answer names: codes of the candidates it was given, and
\* OUTSIDE_CODE for any code that is not among them
RankAlphabet(jancode_candidates) ==
  {jancode_candidates[i].codeNumber : i \in 1..Len(jancode_candidates)} \cup {OUTSIDE_CODE}

RankReplies(jancode_candidates) ==
  {[kind |-> k, jancodes |-> <<>>] :
      k \in {"download_error", "api_error", "invalid_json", "wrong_shape"}}
  \cup {[kind |-> "ok", jancodes |-> js] :
          js \in SeqsUpTo(RankAlphabet(jancode_candidates), MaxRanked)}

\* [candidate.get("codeNumber") for candidate in jancode_candidates if candidate.get("codeNumber")]
CodeNumbers(products) ==
  LET withCode == SelectSeq(products, LAMBDA p : Truthy(p.codeNumber))
  IN [i \in 1..Len(withCode) |-> withCode[i].codeNumber]

filter_jancode_candidates(reply, jancode_candidates) ==
  IF reply.kind \in {"download_error", "invalid_json"}
    THEN Returned(Take(CodeNumbers(jancode_candidates), MAX_CANDIDATES))
  ELSE IF jancode_candidates = <<>>
    THEN Returned(<<>>)
  ELSE IF reply.kind \in {"api_error", "wrong_shape"}
    THEN Raised
  ELSE Returned(Take(DictFromKeys(reply.jancodes), MAX_CANDIDATES))

(* -------------------------- routes.py:167-198 -------------------------- *)
\* list(unique_products.keys())
Keys(unique) == [i \in 1..Len(unique) |-> unique[i].codeNumber]

\* unique_products.get(code): the record under that key, as a list of at most one
Lookup(unique, code) == SelectSeq(unique, LAMBDA p : p.codeNumber = code)

\* routes.py:168-170
RankedOrAll(filtered, unique) == IF filtered = <<>> THEN Keys(unique) ELSE filtered

\* routes.py:173-185
ResolveCandidates(filtered, unique, name) ==
  [i \in 1..Len(filtered) |->
     IF HasCode(unique, filtered[i])
       THEN Lookup(unique, filtered[i])[1]
       ELSE Synthesized(filtered[i], name)]

\* the top-up adding one product whatever number is needed
TopUp_one(candidate_products, product_list) ==
  IF Len(candidate_products) < MIN_CANDIDATES /\ Len(product_list) > Len(candidate_products)
    THEN LET additional_products ==
               SelectSeq(product_list, LAMBDA p : ~HasCode(candidate_products, p.codeNumber))
         IN candidate_products \o Take(additional_products, 1)
    ELSE candidate_products

\* routes.py:188-198
TopUp(candidate_products, product_list) ==
  IF Len(candidate_products) < MIN_CANDIDATES /\ Len(product_list) > Len(candidate_products)
    THEN LET additional_products ==
               SelectSeq(product_list, LAMBDA p : ~HasCode(candidate_products, p.codeNumber))
             needed == MIN_CANDIDATES - Len(candidate_products)
         IN candidate_products \o Take(additional_products, needed)
    ELSE candidate_products

(* -------------------------- routes.py:200-246 -------------------------- *)
\* filtered_jancodes[-1] instead of filtered_jancodes[0]
PrimaryCandidate_last(filtered) == IF filtered # <<>> THEN filtered[Len(filtered)] ELSE None

PrimaryCandidate(filtered) == IF filtered # <<>> THEN filtered[1] ELSE None

RankedResponse(filtered, unique, name, keywords, hits) ==
  LET candidate_products == TopUp(ResolveCandidates(filtered, unique, name), unique)
      primary_candidate == PrimaryCandidate(filtered)
      product_info == IF Truthy(primary_candidate)
                        THEN Lookup(unique, primary_candidate) ELSE <<>>
  IN IF Truthy(primary_candidate) /\ product_info # <<>>
       THEN JANCodeResponse(primary_candidate, ProductInfos(candidate_products), 9,
                            product_info[1].itemName, "Resolved", keywords, hits)
       ELSE JANCodeResponse(None, ProductInfos(candidate_products), 7,
                            name, "PartialMatch", keywords, hits)

(* -------------------------- routes.py:159-246 -------------------------- *)
RankAndAssemble ==
  /\ UNCHANGED <<jan_input, jan_valid>>
  /\ pc = "rank"
  /\ \E reply \in RankReplies(unique_products) :
       LET r == filter_jancode_candidates(reply, unique_products) IN
         /\ calls' = Append(calls, [op |-> "filter_jancode_candidates", arg |-> product_name])
         /\ IF r.raised
              THEN /\ Finish(HandlerExcept([type |-> "Exception"]))
                   /\ UNCHANGED filtered_jancodes
              ELSE /\ filtered_jancodes' = RankedOrAll(r.value, unique_products)
                   /\ Finish(RankedResponse(filtered_jancodes', unique_products,
                                            product_name, search_keywords, keyword_hits))
  /\ UNCHANGED <<product_name, product_image_url, search_keywords, idx, all_products,
                 keyword_hits, keyword_product_map, unique_products, image_candidates,
                 raw_results, search_failed>>

Next ==
  \/ Validate
  \/ GenerateKeywords
  \/ SearchKeyword
  \/ AnalyzeImage
  \/ RankAndAssemble

Spec == Init /\ [][Next]_vars

(* ------------------ app/utils/jancode_utils.py:5-28 ------------------- *)
\* A string is a sequence of characters; a character is its class and, for a
\* digit character, its numeric value.
\* "0".."9"
Ascii(d) == [kind |-> "ascii", value |-> d]
\* the full-width digits U+FF10..U+FF19: str.isdigit() is true, int() gives the value
FullWidth(d) == [kind |-> "fullwidth", value |-> d]
\* the superscript digits such as U+00B2: str.isdigit() is true, int() raises ValueError
Superscript(d) == [kind |-> "superscript", value |-> d]
\* a character that is no digit of any kind
Letter == [kind |-> "letter", value |-> 0]

Chars == {Ascii(d) : d \in 0..9} \cup {FullWidth(d) : d \in 0..9}
           \cup {Superscript(2), Letter}

\* jancode.isdigit(): every character is a Unicode digit and there is at least one
isdigit(s) ==
  /\ Len(s) > 0
  /\ \A i \in 1..Len(s) : s[i].kind \in {"ascii", "fullwidth", "superscript"}

\* int(jancode[i]) raises ValueError unless the character is a Unicode decimal digit
IntRaises(c) == c.kind \notin {"ascii", "fullwidth"}
int(c) == c.value

\* total after the first n rounds of the loop of jancode_utils.py:22-27
RECURSIVE WeightedTotal(_, _)
WeightedTotal(jancode, n) ==
  IF n = 0 THEN 0
  ELSE LET i == n - 1
           digit == int(jancode[i + 1])
       IN WeightedTotal(jancode, n - 1) + (IF i % 2 = 0 THEN digit ELSE digit * 3)

\* True, False, or ValueError when an int() of the loop or of the last line raises
validate_jancode(jancode) ==
  IF Len(jancode) = 0 \/ ~isdigit(jancode) \/ Len(jancode) # JAN_LENGTH
    THEN "False"
    ELSE IF \E i \in 1..JAN_LENGTH : IntRaises(jancode[i])
      THEN "ValueError"
      ELSE LET total == WeightedTotal(jancode, JAN_LENGTH - 1)
               check_digit == (10 - (total % 10)) % 10
           IN IF check_digit = int(jancode[JAN_LENGTH]) THEN "True" ELSE "False"

\* digits of two codes with a right check digit
BaseCodes == {<<4, 9, 0, 1, 2, 3, 4, 5, 6, 7, 8, 9, 4>>, [i \in 1..JAN_LENGTH |-> 0]}
AsciiString(ds) == [i \in 1..Len(ds) |-> Ascii(ds[i])]
\* the arguments tried: a base code with one character replaced by any character,
\* a base code cut or padded with zeros to every length, and a base code written
\* in full-width digits
JanInputs ==
  {[AsciiString(b) EXCEPT ![i] = c] : b \in BaseCodes, i \in 1..JAN_LENGTH, c \in Chars}
    \cup {[i \in 1..n |-> IF i <= JAN_LENGTH THEN Ascii(b[i]) ELSE Ascii(0)] :
             b \in BaseCodes, n \in 0..(JAN_LENGTH + MaxExtra)}
    \cup {[i \in 1..JAN_LENGTH |-> FullWidth(b[i])] : b \in BaseCodes}

\* no request is being handled
InitValidate ==
  /\ pc = "idle"
  /\ product_name = ""
  /\ product_image_url = ""
  /\ search_keywords = <<>>
  /\ idx = 1
  /\ all_products = <<>>
  /\ keyword_hits = EmptyMap
  /\ keyword_product_map = EmptyMap
  /\ unique_products = <<>>
  /\ image_candidates = <<>>
  /\ filtered_jancodes = <<>>
  /\ response = NoResponse
  /\ calls = <<>>
  /\ raw_results = <<>>
  /\ search_failed = <<>>
  /\ jan_input \in JanInputs
  /\ jan_valid = None

ValidateJancode ==
  /\ pc = "idle"
  /\ jan_valid = None
  /\ jan_valid' = validate_jancode(jan_input)
  /\ UNCHANGED <<pc, product_name, product_image_url, search_keywords, idx, all_products,
                 keyword_hits, keyword_product_map, unique_products, image_candidates,
                 filtered_jancodes, response, calls, raw_results, search_failed,
                 jan_input>>

NextValidate == ValidateJancode

SpecValidate == InitValidate /\ [][NextValidate]_vars

(* ============================ properties ============================== *)
Shapes == {"NoKeywords", "NoCandidatesFound", "LowConfidenceEstimate",
           "PartialMatch", "Resolved"}

Responded == pc = "done" /\ response.status = 200
Deduped == pc \in {"image", "rank", "done"}

\* the keywords the fan-out search attempted
Attempted == {raw_results[i].keyword : i \in 1..Len(raw_results)}

NoDuplicates(s) == \A i, j \in 1..Len(s) : i # j => s[i] # s[j]

\* C1: a request whose productImageUrl is empty ends in HTTP 400, not 500, and
\* no external provider call is made for it.
C1_EmptyUrlIsClientError ==
  (pc = "done" /\ product_image_url = "") =>
     (response.status = 400 /\ calls = <<>>)

\* C2: a request with a non-empty image URL never ends in a server error,
\* whatever external call fails: it ends in one of the five response shapes.
C2_NeverServerError ==
  (pc = "done" /\ product_image_url # "") =>
     (response.status = 200 /\ response.message \in Shapes)

\* C3: a search iteration that fails records hit count 0 for its keyword, adds
\* nothing to the pool or to the provenance map, leaves the other keywords' hit
\* counts alone, and the loop goes on to the next keyword.
C3_FailureIsolated ==
  [][(Len(search_failed') = Len(search_failed) + 1 /\ search_failed'[Len(search_failed')])
       => /\ keyword_hits'[search_keywords[idx]] = 0
          /\ \A k \in (DOMAIN keyword_hits) \ {search_keywords[idx]} :
               keyword_hits'[k] = keyword_hits[k]
          /\ all_products' = all_products
          /\ keyword_product_map' = keyword_product_map
          /\ idx' = idx + 1
          /\ pc' \in (IF idx < Len(search_keywords) THEN {"search"} ELSE {"image", "rank"})]_vars

\* C4: every response produced after the fan-out search ran has one keywordHits
\* entry per attempted keyword, and usedKeywords lists the attempted keywords.
C4_KeywordHitsComplete ==
  (Responded /\ response.message \in Shapes \ {"NoKeywords"}) =>
     /\ DOMAIN response.keywordHits = Attempted
     /\ response.usedKeywords = search_keywords

\* C5: with an empty unique pool and a non-empty extraction result (here a list
\* of 13-digit codes, of any length from 1) the response is
\* LowConfidenceEstimate with confidence 0.3, no jancode and at least 3
\* synthesized candidates, each "JAN (estimated)" and named productName plus the
\* "(estimated)" suffix.
C5_LowConfidenceAtLeastThree ==
  (/\ Responded
   /\ unique_products = <<>>
   /\ image_candidates # <<>>
   /\ \A i \in 1..Len(image_candidates) : image_candidates[i] \in JanTokens) =>
     /\ response.message = "LowConfidenceEstimate"
     /\ response.confidence = 3
     /\ response.jancode = None
     /\ Len(response.candidates) >= 3
     /\ \A i \in 1..Len(response.candidates) :
          /\ response.candidates[i].codeType = JAN_ESTIMATED
          /\ response.candidates[i].itemName = product_name \o SUFFIX

\* C6: the codeNumber of every candidate of every response is a string of
\* digits; the download diagnostic never is a candidate's codeNumber.
C6_CodeNumbersAreDigits ==
  \A i \in 1..Len(response.candidates) :
     /\ response.candidates[i].codeNumber \in DigitStrings
     /\ response.candidates[i].codeNumber # DIAGNOSTIC

\* C7: with a non-empty unique pool the response is Resolved (confidence 0.9,
\* jancode the first ranked code) exactly when the first ranked code has a
\* record in the pool, and PartialMatch (confidence 0.7, no jancode) otherwise;
\* jancode is set iff confidence is 0.9, and a set jancode is the codeNumber of
\* a pool record and of the first candidate.
C7_ResolvedIffPrimaryInPool ==
  /\ (Responded /\ unique_products # <<>>) =>
        /\ filtered_jancodes # <<>>
        /\ IF HasCode(unique_products, filtered_jancodes[1])
             THEN /\ response.message = "Resolved"
                  /\ response.confidence = 9
                  /\ response.jancode = filtered_jancodes[1]
             ELSE /\ response.message = "PartialMatch"
                  /\ response.confidence = 7
                  /\ response.jancode = None
  /\ (response.jancode # None) <=> (response.confidence = 9)
  /\ (response.jancode # None) =>
        /\ HasCode(unique_products, response.jancode)
        /\ response.candidates # <<>>
        /\ response.candidates[1].codeNumber = response.jancode

\* a Resolved response whose jancode is not the first pool entry, next to a
\* ranked code that no search returned
C7_Witness ==
  /\ Responded
  /\ response.message = "Resolved"
  /\ Len(unique_products) >= 2
  /\ response.jancode # unique_products[1].codeNumber
  /\ Len(filtered_jancodes) = 2
  /\ ~HasCode(unique_products, filtered_jancodes[2])

\* C8: the keyword list returned by generateSearchKeywords has at most 5
\* entries and contains no keyword twice.
C8_KeywordsBoundedDistinct ==
  (pc \notin {"start", "keywords"}) =>
     /\ Len(search_keywords) <= 5
     /\ NoDuplicates(search_keywords)

\* the keywords, each once and in processing order, whose raw results included code
SurfacedBy(code) ==
  LET hits == SelectSeq(raw_results,
                LAMBDA r : \E j \in 1..Len(r.product) : r.product[j].codeNumber = code)
  IN DictFromKeys([i \in 1..Len(hits) |-> hits[i].keyword])

\* C9: after dedup the searchKeyword of every unique pool entry is the
\* comma-joined list of exactly the keywords whose raw search results included
\* its codeNumber, each once, in keyword processing order.
C9_ProvenanceExact ==
  Deduped =>
    \A i \in 1..Len(unique_products) :
       unique_products[i].searchKeyword = JoinComma(SurfacedBy(unique_products[i].codeNumber))

\* position of the first product with that codeNumber
FirstIndex(products, code) ==
  CHOOSE i \in 1..Len(products) :
     /\ products[i].codeNumber = code
     /\ \A j \in 1..(i - 1) : products[j].codeNumber # code

\* C10: the unique pool has at most as many entries as products were collected,
\* with pairwise distinct codeNumber, in order of first appearance in the flat
\* pool; the record kept for a code is the first one seen, and only its
\* searchKeyword differs from what the lookup returned.
C10_DedupFirstSeenWins ==
  Deduped =>
    /\ Len(unique_products) <= Len(all_products)
    /\ \A i, j \in 1..Len(unique_products) :
         i # j => unique_products[i].codeNumber # unique_products[j].codeNumber
    /\ \A i \in 1..Len(unique_products) :
         /\ HasCode(all_products, unique_products[i].codeNumber)
         /\ unique_products[i] =
              [all_products[FirstIndex(all_products, unique_products[i].codeNumber)]
                 EXCEPT !.searchKeyword = unique_products[i].searchKeyword]
    /\ \A i, j \in 1..Len(unique_products) :
         i < j => FirstIndex(all_products, unique_products[i].codeNumber)
                    < FirstIndex(all_products, unique_products[j].codeNumber)
    /\ \A k \in 1..Len(all_products) :
         Truthy(all_products[k].codeNumber) =>
           HasCode(unique_products, all_products[k].codeNumber)

\* three collected products, one without a codeNumber and two that share theirs
C10_Witness ==
  /\ pc = "rank"
  /\ Len(all_products) = 3
  /\ Len(unique_products) = 1
  /\ all_products[1].codeNumber = ""
  /\ all_products[2].codeNumber = all_products[3].codeNumber
  /\ all_products[2].itemName # all_products[3].itemName

\* C11: whenever the unique pool has at least 3 entries, the candidate list of
\* the response has at least 3 entries, whatever the ranking returned (nothing,
\* fewer than 3 codes, codes outside the pool, or the failure fallback).
C11_CandidateFloor ==
  (Responded /\ Len(unique_products) >= 3) => Len(response.candidates) >= 3

\* a pool of 3 and a ranking that names one code only, which no search returned
C11_Witness ==
  /\ Responded
  /\ Len(unique_products) = 3
  /\ filtered_jancodes = <<OUTSIDE_CODE>>
  /\ Len(response.candidates) = 3

\* 13 characters, each of them one of "0".."9"
IsAscii13(s) ==
  Len(s) = JAN_LENGTH /\ \A i \in 1..JAN_LENGTH : s[i].kind = "ascii"

\* (10 - (sum mod 10)) mod 10, the sum taking the first 12 digits with weight 1
\* at the even 0-indexed positions and weight 3 at the odd ones
Gtin13CheckDigit(s) ==
  LET sum == (s[1].value + s[3].value + s[5].value + s[7].value + s[9].value + s[11].value)
               + 3 * (s[2].value + s[4].value + s[6].value + s[8].value + s[10].value
                        + s[12].value)
  IN (10 - (sum % 10)) % 10

\* C12: validate_jancode returns False for every argument that is not exactly 13
\* ASCII digits (empty, of another length, or with a character that is not 0-9,
\* a non-ASCII digit included); for 13 ASCII digits it returns True exactly when
\* the 13th digit is the GTIN-13 check digit of the first 12; and a valid code
\* with only its check digit changed is invalid.
C12_ValidateContract ==
  jan_valid # None =>
    /\ ~IsAscii13(jan_input) => jan_valid = "False"
    /\ IsAscii13(jan_input) =>
          /\ jan_valid \in {"True", "False"}
          /\ jan_valid = "True" <=> jan_input[JAN_LENGTH].value = Gtin13CheckDigit(jan_input)
          /\ jan_valid = "True" =>
                \A d \in 0..9 :
                  d # jan_input[JAN_LENGTH].value =>
                    validate_jancode([jan_input EXCEPT ![JAN_LENGTH] = Ascii(d)]) = "False"

\* the searches for the first n keywords, in keyword order, 3 hits of page 1 each
SearchCalls(keywords, n) ==
  [i \in 1..n |-> [op |-> "search_by_keyword", arg |-> keywords[i], hits |-> 3, page |-> 1]]

KeywordCall == [op |-> "generate_search_keywords", arg |-> product_name]

\* the one call that follows the searches: the image analysis for an empty
\* pool, the ranking for any other
FinalCall ==
  [op |-> IF unique_products = <<>> THEN "analyze_product_image"
                                    ELSE "filter_jancode_candidates",
   arg |-> product_name]

\* C13: within one request every external call is attempted once and in
\* pipeline order: the keyword generation once, then one search per entry of
\* the keyword list in list order (3 hits, page 1), then exactly one of the
\* image analysis (empty pool only) and the ranking (non-empty pool only).
\* Nothing is called again after a failure, nothing is searched for an empty
\* keyword list, and a request rejected for its image URL calls nothing.
C13_CallsOnceInOrder ==
  LET n == Len(search_keywords)
      searched == <<KeywordCall>> \o SearchCalls(search_keywords, n)
  IN /\ pc \in {"start", "keywords"} => calls = <<>>
     /\ pc = "search" =>
           /\ Len(calls) \in 1..n
           /\ calls = <<KeywordCall>> \o SearchCalls(search_keywords, Len(calls) - 1)
     /\ pc = "image" => calls = searched /\ unique_products = <<>>
     /\ pc = "rank" => calls = searched /\ unique_products # <<>>
     /\ pc = "done" =>
           \/ product_image_url = "" /\ calls = <<>>
           \/ product_image_url # "" /\ n = 0 /\ calls = <<KeywordCall>>
           \/ product_image_url # "" /\ n > 0 /\ calls = Append(searched, FinalCall)

\* a request of two keywords whose first search failed and which ends in a
\* response after the ranking
C13_Witness ==
  /\ Responded
  /\ Len(search_keywords) = 2
  /\ search_failed[1]
  /\ Len(calls) = 4
  /\ calls[4].op = "filter_jancode_candidates"

\* the candidate c of a response shows the pool record p
Shows(c, p) ==
  /\ c.codeNumber = p.codeNumber
  /\ c.codeType = p.codeType
  /\ c.itemName = p.itemName
  /\ c.searchKeyword = p.searchKeyword

\* the pool records whose code the list of codes does not name, in pool order
Unlisted(codes) ==
  SelectSeq(unique_products, LAMBDA p : \A i \in 1..Len(codes) : codes[i] # p.codeNumber)

\* C14: with a non-empty pool the candidate list of the response is the ranked
\* codes in ranking order (all pool codes in discovery order when the ranking
\* was empty), each as its pool record or, when the pool has none, as a
\* synthesized "(estimated)" record; then, only when these are fewer than 3,
\* the pool records not yet listed, in pool order, until there are 3 or the
\* pool is exhausted; and no codeNumber occurs twice.
C14_CandidateListAssembly ==
  (Responded /\ unique_products # <<>>) =>
    LET candidates == response.candidates
        k == Len(filtered_jancodes)
        unlisted == Unlisted(filtered_jancodes)
        expected_rest == IF k < 3 THEN SubSeq(unlisted, 1, Min(3 - k, Len(unlisted)))
                                  ELSE <<>>
    IN /\ Len(candidates) = k + Len(expected_rest)
       /\ \A i \in 1..k :
             /\ candidates[i].codeNumber = filtered_jancodes[i]
             /\ \/ \E j \in 1..Len(unique_products) : Shows(candidates[i], unique_products[j])
                \/ /\ \A j \in 1..Len(unique_products) :
                          unique_products[j].codeNumber # filtered_jancodes[i]
                   /\ candidates[i].codeType = JAN_ESTIMATED
                   /\ candidates[i].itemName = product_name \o SUFFIX
       /\ \A i \in 1..Len(expected_rest) : Shows(candidates[k + i], expected_rest[i])
       /\ \A i, j \in 1..Len(candidates) :
             candidates[i].codeNumber = candidates[j].codeNumber => i = j
====
